---- MODULE Spec2Model ----
(***************************************************************************)
(* storm_grok_server: the QUIC handshake (session.rs do_handshake and the  *)
(* older server.rs start_session), the per-agent session actor (heartbeat, *)
(* loopback listener, stop) and the registry actor (Connect, Disconnect,   *)
(* ResolveClient, the stop-handle tripwire).                                *)
(*                                                                         *)
(* Every `.await` of the handshake is a step of its own; an actor handles  *)
(* one message per step; the registry's mailbox is a FIFO queue.  A panic  *)
(* (an unwrap on Err, panic!) ends the future it occurs in and is recorded *)
(* in pc; what the runtime does with the panicking thread is not followed. *)
(***************************************************************************)
EXTENDS Integers, Sequences, FiniteSets, TLC

\* ---- bounds ----------------------------------------------------------
NumConns == 2          \* agent connections that arrive
NumPorts == 1          \* loopback ports that exist (the scan range, cut short)
MaxPings == 1          \* heartbeat pings in flight per session
MaxResolves == 1       \* ResolveClient messages the ingress sends
MaxFwd == 1            \* public TCP connections that arrive
MaxPublic == 3         \* public TCP connections that arrive at the one agent
MaxAttempts == 3       \* refreshes of the key cache that are started
MaxAsks == 2           \* messages callers send to the key cache
MaxTicks == 3          \* cap of the tick count kept for a lost connection

\* ---- program constants ------------------------------------------------
FirstPort == 1025      \* for port in 1025..65535
CloseCode == 1         \* conn.close(1u32.into(), ..)
ReadLimit == 1000      \* recv.read_to_end(1000)
UuidLen == 16          \* the bytes of a Uuid, as id.as_bytes() yields them

Conns == 1..NumConns
Ids == Conns
Ports == FirstPort..(FirstPort + NumPorts - 1)
NoPort == 0
NoId == 0

\* ---- settings::AuthRules and the JWT the agent presents ----------------
Emails == {"alice@example.com", "bob@example.com"}
NoHd == "<none>"
Hds == {NoHd, "example.com", "other.org"}
auth == [users |-> {"alice@example.com"}, host_domains |-> {"example.com"}]

\* A token by what jsonwebtoken does with it: whether its header decodes,
\* whether the header has a kid, whether decode::<Claims> accepts it under
\* the built-in RSA key, and the claims it then yields.  Of the tokens that
\* are rejected before their claims are read, those with an allowed email
\* and those with none of the allowed claims are kept.
Tokens ==
    {t \in [header : BOOLEAN, kid : BOOLEAN, valid : BOOLEAN,
            email : Emails, email_verified : BOOLEAN, hd : Hds] :
        /\ ~t.header => ~t.kid
        /\ ~t.kid => ~t.valid
        /\ ~t.valid => /\ t.hd = NoHd
                       /\ t.email_verified = (t.email \in auth.users)}

\* What the agent sends on its bidirectional stream: the byte count and the
\* token, or a stream that is reset before it ends.
Payloads ==
    {p \in [len : {ReadLimit, ReadLimit + 1}, reset : BOOLEAN, token : Tokens] :
        (p.reset \/ p.len > ReadLimit) =>
            /\ ~(p.reset /\ p.len > ReadLimit)
            /\ p.token.valid /\ p.token.email_verified /\ p.token.hd = NoHd
            /\ p.token.email \in auth.users}

Ok == "Ok"

\* A validate_token that does not look at email_verified.
validate_token_Unverified(token, rules) ==
    IF ~token.header THEN "InvalidToken"
    ELSE IF ~token.kid THEN "No kid found in header"
    ELSE IF ~token.valid THEN "InvalidSignature"
    ELSE IF token.email \in rules.users THEN Ok
    ELSE IF token.hd # NoHd /\ token.hd \in rules.host_domains THEN Ok
    ELSE "You are not allowed in here!"

\* validate_token: Ok, or the error it bails with.
validate_token(token, rules) ==
    IF ~token.header THEN "InvalidToken"
    ELSE IF ~token.kid THEN "No kid found in header"
    ELSE IF ~token.valid THEN "InvalidSignature"
    ELSE IF token.email_verified /\ token.email \in rules.users THEN Ok
    ELSE IF token.hd # NoHd /\ token.hd \in rules.host_domains THEN Ok
    ELSE "You are not allowed in here!"

\* recv.read_to_end(1000): Ok, or the read error.
read_to_end(payload, open) ==
    IF ~open THEN "connection lost"
    ELSE IF payload.reset THEN "stream reset by peer"
    ELSE IF payload.len > ReadLimit THEN "stream too long"
    ELSE Ok

\* The authorization rule as the specification words it.
Authorized(token) ==
    \/ token.email_verified /\ token.email \in auth.users
    \/ token.hd \in auth.host_domains

\* Every pair of allow-lists over the emails and the hosted domains.
RulePairs == [users : SUBSET Emails, host_domains : SUBSET (Hds \ {NoHd})]

\* The first byte of a handshake payload when one precedes the JWT: 't',
\* 'h' and NUL; NoTag when the payload is the JWT alone.
TcpTag == 116
NoTag == -1
TagBytes == {TcpTag, 104, 0}
NoMode == "<none>"

\* The bytes an agent sends and the allow-lists they are checked against.
ValidateInputs == [tag : TagBytes \cup {NoTag}, token : Tokens, rules : RulePairs]
NoInput ==
    [tag |-> NoTag, rules |-> auth,
     token |-> [header |-> FALSE, kid |-> FALSE, valid |-> FALSE,
                email |-> "bob@example.com", email_verified |-> FALSE, hd |-> NoHd]]
NoOutput == [mode |-> NoMode, result |-> "<none>"]

\* String::from_utf8_lossy(&received_bytes), as decode_header and decode
\* read it: a byte before the JWT makes its first segment undecodable.
from_utf8_lossy(payload) ==
    IF payload.tag = NoTag THEN payload.token
    ELSE [payload.token EXCEPT !.header = FALSE, !.kid = FALSE, !.valid = FALSE]

VARIABLES
    pc,          \* per connection: where its handshake stands
    connOpen,    \* per connection: the QUIC connection is open
    closeCode,   \* per connection: code of conn.close(..), -1 if never called
    closeReason, \* per connection: reason of conn.close(..)
    hsError,     \* per connection: the Err of do_handshake, or the panic message
    hsId,        \* per connection: the Uuid minted by its handshake
    sentId,      \* per connection: the id bytes written to the agent
    lport,       \* per connection: tcp_addr, the port its TcpListener was bound to
    sessState,   \* per connection: "none", "running", "stopping", "stopped"
    listening,   \* per connection: the accept loop of its session runs
    pings,       \* per connection: send_ping futures in flight
    fwd,         \* per connection: forwarders spawned by its accept loop, alive,
                 \* each with its public socket and its bi-stream
    accepted,    \* per connection: public sockets its accept loop has accepted
    opened,      \* per connection: bi-streams the server has opened on it
    publicLeft,  \* public TCP connections that may still arrive
    response,    \* main.rs: the answer to the last public request
    discSent,    \* history, per connection: Disconnects its session has sent
    failed,      \* history, per connection: pings of its session that failed
    \* google_key_store.rs
    keys,        \* GoogleKeyStore.keys: kid -> DecodingKey
    ksMail,      \* messages sent to the key store, not yet handled
    ksFetch,     \* "idle", or "waiting": a refresh_token future is ctx.wait()ed
    ksTimers,    \* RefreshCache messages scheduled by notify_later
    asksLeft,    \* messages callers may still send to the key store
    keyAnswer,   \* answer of the last ResolveKey handled
    lastSnap,    \* history: key set of the last response that was applied
    lastOutcome, \* history: how the last refresh that completed ended
    attempts,    \* history: refreshes started
    gk,          \* a call of get_key_for_kid
    \* validate_token on its own
    fnIn,        \* the payload and the allow-lists validate_token is given
    fnOut,       \* what the handshake made of them
    sessions,    \* registry: HashMap<Uuid, (Addr, String)>
    mailbox,     \* registry: messages sent to it, not yet handled
    stopCalls,   \* stop_handle.stop(true) calls made
    errLog,      \* ids logged "Tried to remove non existent session"
    resolvesLeft,\* ResolveClient messages the ingress may still send
    resolved,    \* answer of the last ResolveClient handled
    \* history, read by the properties only
    presented,   \* per connection: the agent presented an authorized JWT
    lastOp,      \* per id: last of Connect/Disconnect the registry handled
    lastEndpoint,\* per id: tcp_addr of the last Connect handled
    droppedLive, \* per connection: the connection was lost while LIVE
    ticks        \* per connection: heartbeat ticks since the connection was lost

vars == <<pc, connOpen, closeCode, closeReason, hsError, hsId, sentId,
          lport, sessState, listening, pings, fwd, sessions, mailbox, stopCalls,
          errLog, resolvesLeft, resolved, presented, lastOp, lastEndpoint,
          droppedLive, ticks, accepted, opened, publicLeft, response,
          discSent, failed,
          keys, ksMail, ksFetch, ksTimers, asksLeft, keyAnswer, lastSnap,
          lastOutcome, attempts, gk, fnIn, fnOut>>

hsVars == <<pc, closeCode, closeReason, hsError, hsId, sentId, presented>>
sessVars == <<sessState, listening, pings, fwd>>
regVars == <<sessions, stopCalls, errLog, resolved, lastOp, lastEndpoint>>
fanVars == <<accepted, opened, publicLeft>>
ingressVars == <<response>>
stopVars == <<discSent, failed>>
keyVars == <<keys, ksMail, ksFetch, ksTimers, asksLeft, keyAnswer, lastSnap,
             lastOutcome, attempts>>
\* The components beside the tunnel.
callerVars == <<gk>>
fnVars == <<fnIn, fnOut>>
sideVars == <<keyVars, callerVars, fnVars>>
\* The handshakes, the sessions, the registry and the ingress.
tunnelVars == <<hsVars, sessVars, regVars, fanVars, ingressVars, stopVars, connOpen,
                lport, mailbox, resolvesLeft, droppedLive, ticks>>

NoAnswer == [id |-> NoId, endpoint |-> NoPort]

\* ---- main.rs: the Host header of a public request ------------------------
NotFound == 404
HttpOk == 200
NoResponse == [status |-> 0, forwarded |-> FALSE]
\* Statuses an agent answers a forwarded request with.
AgentStatuses == {HttpOk, NotFound}
\* header: the request has a Host header; str: to_str() of it is Ok;
\* label: the id its first label parses to, NoId when Uuid::parse_str is Err.
HostHeaders ==
    {h \in [header : BOOLEAN, str : BOOLEAN, label : Ids \cup {NoId}] :
        /\ ~h.header => ~h.str
        /\ ~h.str => h.label = NoId}

\* ---- google_key_store.rs: what the JWKS endpoint may answer --------------
Kids == {"k1", "k2"}
NoKey == "<none>"
BadComponent == "<not base64>"
\* n and e of a key as the response gives them.
Components == {"n1", "n2", BadComponent}
\* The "keys" array of a body, by kid.
JwkSets == UNION {[D -> Components] : D \in SUBSET Kids}
CacheControls == {"<no header>", "public", "max-age=,", "max-age=3600,"}
\* net: the request was answered; json: the body parses as a key list.
NetError == [net |-> FALSE, cc |-> "<no header>", json |-> FALSE, body |-> << >>]
Responses ==
    {NetError}
      \cup [net : {TRUE}, cc : CacheControls, json : {TRUE}, body : JwkSets]
      \cup [net : {TRUE}, cc : CacheControls, json : {FALSE}, body : {<< >>}]

\* from: the call of get_key_for_kid that awaits the reply, if one does.
NoCaller == "<none>"
Caller == "get_key_for_kid"
RefreshCache == [type |-> "RefreshCache", kid |-> NoKey, from |-> NoCaller]
ResolveKeyMsg(kid) == [type |-> "ResolveKey", kid |-> kid, from |-> NoCaller]
FromCaller(msg) == [msg EXCEPT !.from = Caller]
\* One call of get_key_for_kid: where it stands, its kid, what it returned,
\* the messages it has sent and the number of the refresh it asked for.
NoCall ==
    [pc |-> "idle", kid |-> NoKey, result |-> NoKey,
     refreshes |-> 0, resolves |-> 0, refreshNo |-> 0]
ErrNoKey == "Google did not supply a DecodingKey"
NoKeyAnswer == [kid |-> NoKey, key |-> NoKey]

\* The state after construction, with n public connections still to come
\* and a payload of inputs at hand.
InitWith(n, inputs) ==
    /\ pc = [c \in Conns |-> "idle"]
    /\ connOpen = [c \in Conns |-> FALSE]
    /\ closeCode = [c \in Conns |-> -1]
    /\ closeReason = [c \in Conns |-> ""]
    /\ hsError = [c \in Conns |-> ""]
    /\ hsId = [c \in Conns |-> NoId]
    /\ sentId = [c \in Conns |-> << >>]
    /\ lport = [c \in Conns |-> NoPort]
    /\ sessState = [c \in Conns |-> "none"]
    /\ listening = [c \in Conns |-> FALSE]
    /\ pings = [c \in Conns |-> 0]
    /\ fwd = [c \in Conns |-> {}]
    /\ accepted = [c \in Conns |-> 0]
    /\ opened = [c \in Conns |-> 0]
    /\ publicLeft = n
    /\ sessions = << >>
    /\ mailbox = << >>
    /\ stopCalls = 0
    /\ errLog = {}
    /\ resolvesLeft = MaxResolves
    /\ resolved = NoAnswer
    /\ presented = [c \in Conns |-> FALSE]
    /\ lastOp = [i \in Ids |-> "none"]
    /\ lastEndpoint = [i \in Ids |-> NoPort]
    /\ droppedLive = [c \in Conns |-> FALSE]
    /\ ticks = [c \in Conns |-> 0]
    /\ response = NoResponse
    /\ discSent = [c \in Conns |-> 0]
    /\ failed = [c \in Conns |-> 0]
    /\ keys = << >>
    /\ ksMail = <<RefreshCache>>
    /\ ksFetch = "idle"
    /\ ksTimers = 0
    /\ asksLeft = MaxAsks
    /\ keyAnswer = NoKeyAnswer
    /\ lastSnap = << >>
    /\ lastOutcome = "none"
    /\ attempts = 0
    /\ gk = NoCall
    /\ fnIn \in inputs
    /\ fnOut = NoOutput

InitState(n) == InitWith(n, {NoInput})

Init == InitState(MaxFwd)

\* ---- helpers -----------------------------------------------------------
\* Uuid::new_v4(): a value no other call returns.
new_v4(c) == c

\* The big-endian bytes of n, len of them.
RECURSIVE be_bytes(_, _)
be_bytes(n, len) ==
    IF len = 0 THEN << >> ELSE Append(be_bytes(n \div 256, len - 1), n % 256)

\* Uuid::as_bytes: what write_all puts on the stream.
as_bytes(i) == be_bytes(i, UuidLen)

\* Uuid::from_bytes, which the agent applies to what it reads.
RECURSIVE from_bytes(_)
from_bytes(b) ==
    IF b = << >> THEN 0
    ELSE from_bytes(SubSeq(b, 1, Len(b) - 1)) * 256 + b[Len(b)]

\* The TcpListener of c exists: in the hands of the handshake, in the
\* StartListeningOnPort message, or in the accept loop.
Bound(c) ==
    /\ lport[c] # NoPort
    /\ \/ listening[c]
       \/ pc[c] \in {"h_listen", "s_connect", "s_sendlisten", "s_listen"}

BoundPorts == {lport[c] : c \in {d \in Conns : Bound(d)}}

\* listen_available_port: the first port of the range that binds, NoPort
\* when the scan ends without one (panic!("No ports available")).
listen_available_port(bound) ==
    LET free == Ports \ bound
    IN  IF free = {} THEN NoPort
        ELSE CHOOSE p \in free : \A q \in free : p <= q

ConnectMsg(i, c, p) == [type |-> "Connect", id |-> i, addr |-> c, port |-> p]
DisconnectMsg(i) == [type |-> "Disconnect", id |-> i, addr |-> 0, port |-> NoPort]
ResolveMsg(i) == [type |-> "ResolveClient", id |-> i, addr |-> 0, port |-> NoPort]

\* The session a handshake starts is LIVE once the handshake has returned Ok.
Live(c) == pc[c] = "done" /\ sessState[c] = "running"

\* ---- the QUIC connection ------------------------------------------------
\* session.rs start_session: connection_future.await.unwrap(), then
\* do_handshake, which mints the id first thing.
Accept(c) ==
    /\ pc[c] = "idle"
    /\ pc' = [pc EXCEPT ![c] = "h_stream"]
    /\ hsId' = [hsId EXCEPT ![c] = new_v4(c)]
    /\ connOpen' = [connOpen EXCEPT ![c] = TRUE]
    /\ UNCHANGED <<closeCode, closeReason, hsError, sentId, presented, lport,
                   mailbox, resolvesLeft, droppedLive, ticks>>
    /\ UNCHANGED <<sessVars, regVars>>
    /\ UNCHANGED <<fanVars, ingressVars, stopVars, sideVars>>

\* server.rs StreamHandler<Connecting>: start_session is spawned and its
\* connection_future.await.unwrap() returns.
SrvAccept(c) ==
    /\ pc[c] = "idle"
    /\ pc' = [pc EXCEPT ![c] = "s_uuid"]
    /\ connOpen' = [connOpen EXCEPT ![c] = TRUE]
    /\ UNCHANGED <<closeCode, closeReason, hsError, hsId, sentId, presented, lport,
                   mailbox, resolvesLeft, droppedLive, ticks>>
    /\ UNCHANGED <<sessVars, regVars>>
    /\ UNCHANGED <<fanVars, ingressVars, stopVars, sideVars>>

\* The peer closes the connection, or it times out.  (Once the session has
\* stopped or the handshake has ended in a panic, nothing reads its state.)
ConnDrop(c) ==
    /\ connOpen[c]
    /\ sessState[c] \in {"none", "running"}
    /\ pc[c] # "panicked"
    /\ connOpen' = [connOpen EXCEPT ![c] = FALSE]
    /\ droppedLive' = [droppedLive EXCEPT ![c] = Live(c)]
    /\ UNCHANGED <<lport, mailbox, resolvesLeft, ticks>>
    /\ UNCHANGED <<hsVars, sessVars, regVars>>
    /\ UNCHANGED <<fanVars, ingressVars, stopVars, sideVars>>

\* ---- session.rs: start_session / do_handshake ---------------------------
\* Err(e) from do_handshake: start_session closes the connection.
CloseWith(c, e) ==
    /\ pc' = [pc EXCEPT ![c] = "closed"]
    /\ hsError' = [hsError EXCEPT ![c] = e]
    /\ closeCode' = [closeCode EXCEPT ![c] = CloseCode]
    /\ closeReason' = [closeReason EXCEPT ![c] = e]
    /\ connOpen' = [connOpen EXCEPT ![c] = FALSE]

\* A panic in the handshake future: its locals are dropped, the listener
\* with them.
Panic(c, msg) ==
    /\ pc' = [pc EXCEPT ![c] = "panicked"]
    /\ hsError' = [hsError EXCEPT ![c] = msg]
    /\ lport' = [lport EXCEPT ![c] = NoPort]

\* new_conn.bi_streams.next().await: the agent's stream, or None / Some(Err)
\* once the connection is lost, and then the if-let is skipped.
HsNextBiStream(c) ==
    /\ pc[c] = "h_stream"
    /\ pc' = [pc EXCEPT ![c] = IF connOpen[c] THEN "h_read" ELSE "h_port"]
    /\ UNCHANGED <<connOpen, closeCode, closeReason, hsError, hsId, sentId,
                   presented, lport, mailbox, resolvesLeft, droppedLive, ticks>>
    /\ UNCHANGED <<sessVars, regVars>>
    /\ UNCHANGED <<fanVars, ingressVars, stopVars, sideVars>>

\* recv.read_to_end(1000).await? ; validate_token(..).await?
HsRead(c) ==
    /\ pc[c] = "h_read"
    /\ \E payload \in Payloads :
        LET r == read_to_end(payload, connOpen[c])
            v == validate_token(payload.token, auth)
        IN  /\ presented' = [presented EXCEPT ![c] = r = Ok /\ Authorized(payload.token)]
            /\ IF r # Ok THEN CloseWith(c, r)
               ELSE IF v # Ok THEN CloseWith(c, v)
               ELSE /\ pc' = [pc EXCEPT ![c] = "h_reply"]
                    /\ UNCHANGED <<hsError, closeCode, closeReason, connOpen>>
    /\ UNCHANGED <<hsId, sentId, lport, mailbox, resolvesLeft, droppedLive, ticks>>
    /\ UNCHANGED <<sessVars, regVars>>
    /\ UNCHANGED <<fanVars, ingressVars, stopVars, sideVars>>

\* send.write_all(id.as_bytes()).await.unwrap(); send.finish().await.unwrap()
HsReply(c) ==
    /\ pc[c] = "h_reply"
    /\ IF connOpen[c]
       THEN /\ sentId' = [sentId EXCEPT ![c] = as_bytes(hsId[c])]
            /\ pc' = [pc EXCEPT ![c] = "h_port"]
            /\ UNCHANGED <<hsError, lport>>
       ELSE /\ Panic(c, "unwrap: write_all")
            /\ UNCHANGED sentId
    /\ UNCHANGED <<connOpen, closeCode, closeReason, hsId, presented,
                   mailbox, resolvesLeft, droppedLive, ticks>>
    /\ UNCHANGED <<sessVars, regVars>>
    /\ UNCHANGED <<fanVars, ingressVars, stopVars, sideVars>>

\* listen_available_port().await; StormGrokClientSession::start(..);
\* session_address.send(StartListeningOnPort { tcp_listener }) up to its await.
HsListenPort(c) ==
    /\ pc[c] = "h_port"
    /\ LET p == listen_available_port(BoundPorts)
       IN  IF p = NoPort
           THEN /\ Panic(c, "No ports available")
                /\ UNCHANGED sessState
           ELSE /\ lport' = [lport EXCEPT ![c] = p]
                /\ sessState' = [sessState EXCEPT ![c] = "running"]
                /\ pc' = [pc EXCEPT ![c] = "h_listen"]
                /\ UNCHANGED hsError
    /\ UNCHANGED <<connOpen, closeCode, closeReason, hsId, sentId, presented,
                   listening, pings, fwd, mailbox, resolvesLeft, droppedLive, ticks>>
    /\ UNCHANGED regVars
    /\ UNCHANGED <<fanVars, ingressVars, stopVars, sideVars>>

\* The send of StartListeningOnPort has returned: server_address.send(Connect)
\* up to its await.
HsSendConnect(c) ==
    /\ pc[c] = "h_sendconnect"
    /\ mailbox' = Append(mailbox, ConnectMsg(hsId[c], c, lport[c]))
    /\ pc' = [pc EXCEPT ![c] = "h_connect"]
    /\ UNCHANGED <<connOpen, closeCode, closeReason, hsError, hsId, sentId,
                   presented, lport, resolvesLeft, droppedLive, ticks>>
    /\ UNCHANGED <<sessVars, regVars>>
    /\ UNCHANGED <<fanVars, ingressVars, stopVars, sideVars>>

\* ---- server.rs: start_session (what StreamHandler<Connecting> spawns) ----
\* send_uuid_over_uni_pipe: mint the id, open_uni().await.unwrap(), write it.
SrvSendUuid(c) ==
    /\ pc[c] = "s_uuid"
    /\ hsId' = [hsId EXCEPT ![c] = new_v4(c)]
    /\ IF connOpen[c]
       THEN /\ sentId' = [sentId EXCEPT ![c] = as_bytes(new_v4(c))]
            /\ pc' = [pc EXCEPT ![c] = "s_port"]
            /\ UNCHANGED <<hsError, lport>>
       ELSE /\ Panic(c, "unwrap: open_uni")
            /\ UNCHANGED sentId
    /\ UNCHANGED <<connOpen, closeCode, closeReason, presented,
                   mailbox, resolvesLeft, droppedLive, ticks>>
    /\ UNCHANGED <<sessVars, regVars>>
    /\ UNCHANGED <<fanVars, ingressVars, stopVars, sideVars>>

\* listen_available_port().await; StormGrokClientSession::start(..);
\* server_address.send(Connect {..}) up to its await.
SrvListenPort(c) ==
    /\ pc[c] = "s_port"
    /\ LET p == listen_available_port(BoundPorts)
       IN  IF p = NoPort
           THEN /\ Panic(c, "No ports available")
                /\ UNCHANGED <<sessState, mailbox>>
           ELSE /\ lport' = [lport EXCEPT ![c] = p]
                /\ sessState' = [sessState EXCEPT ![c] = "running"]
                /\ mailbox' = Append(mailbox, ConnectMsg(hsId[c], c, p))
                /\ pc' = [pc EXCEPT ![c] = "s_connect"]
                /\ UNCHANGED hsError
    /\ UNCHANGED <<connOpen, closeCode, closeReason, hsId, sentId, presented,
                   listening, pings, fwd, resolvesLeft, droppedLive, ticks>>
    /\ UNCHANGED regVars
    /\ UNCHANGED <<fanVars, ingressVars, stopVars, sideVars>>

\* The send of Connect has returned:
\* session_address.send(StartListeningOnPort {..}).await.unwrap(), which is
\* Err(MailboxError::Closed) when the session has stopped.
SrvSendListen(c) ==
    /\ pc[c] = "s_sendlisten"
    /\ IF sessState[c] = "running"
       THEN /\ pc' = [pc EXCEPT ![c] = "s_listen"]
            /\ UNCHANGED <<hsError, lport>>
       ELSE Panic(c, "unwrap: MailboxError")
    /\ UNCHANGED <<connOpen, closeCode, closeReason, hsId, sentId, presented,
                   mailbox, resolvesLeft, droppedLive, ticks>>
    /\ UNCHANGED <<sessVars, regVars>>
    /\ UNCHANGED <<fanVars, ingressVars, stopVars, sideVars>>

\* The session stopped with StartListeningOnPort still in its mailbox: the
\* message is dropped with the mailbox and the send is Err.
SrvListenClosed(c) ==
    /\ pc[c] = "s_listen"
    /\ sessState[c] = "stopped"
    /\ Panic(c, "unwrap: MailboxError")
    /\ UNCHANGED <<connOpen, closeCode, closeReason, hsId, sentId, presented,
                   mailbox, resolvesLeft, droppedLive, ticks>>
    /\ UNCHANGED <<sessVars, regVars>>
    /\ UNCHANGED <<fanVars, ingressVars, stopVars, sideVars>>

\* ---- session.rs: the StormGrokClientSession actor -------------------------
\* A StartListeningOnPort is in the session's mailbox, ahead of any Ping.
ListenPending(c) == pc[c] \in {"h_listen", "s_listen"}

\* Handler<StartListeningOnPort>: spawn connect_tcp_to_bi_quic; the sender's
\* await returns.
SessStartListening(c) ==
    /\ ListenPending(c)
    /\ sessState[c] = "running"
    /\ listening' = [listening EXCEPT ![c] = TRUE]
    /\ pc' = [pc EXCEPT ![c] = IF pc[c] = "h_listen" THEN "h_sendconnect" ELSE "done"]
    /\ UNCHANGED <<connOpen, closeCode, closeReason, hsError, hsId, sentId,
                   presented, lport, sessState, pings, fwd, mailbox, resolvesLeft,
                   droppedLive, ticks>>
    /\ UNCHANGED regVars
    /\ UNCHANGED <<fanVars, ingressVars, stopVars, sideVars>>

\* A Handler<Ping> that logs the Err of send_ping and lets the session go on.
PingThen_LogOnly(state, res) == state

\* The closure Handler<Ping> chains to send_ping: ctx.stop() on Err.
PingThen(state, res) == IF res # Ok THEN "stopping" ELSE state

\* heart_beat's interval fires: Ping to itself, Handler<Ping> spawns
\* send_ping(self.connection.open_uni()).  On a lost connection open_uni is
\* Err at once; on an open one the ping stays in flight.
HeartBeat(c) ==
    /\ sessState[c] = "running"
    /\ ~ListenPending(c)
    /\ IF connOpen[c]
       THEN /\ pings[c] < MaxPings
            /\ pings' = [pings EXCEPT ![c] = @ + 1]
            /\ UNCHANGED <<sessState, ticks, failed>>
       ELSE /\ sessState' = [sessState EXCEPT ![c] = PingThen(@, "connection lost")]
            /\ ticks' = [ticks EXCEPT ![c] = IF @ < MaxTicks THEN @ + 1 ELSE @]
            /\ failed' = [failed EXCEPT ![c] = @ + 1]
            /\ UNCHANGED pings
    /\ UNCHANGED <<connOpen, lport, listening, fwd, mailbox, resolvesLeft, droppedLive>>
    /\ UNCHANGED <<hsVars, regVars>>
    /\ UNCHANGED <<fanVars, ingressVars, discSent, sideVars>>

\* A send_ping in flight completes: Ok only on an open connection; Err when
\* the connection is lost or the agent stops the stream.  The futures of a
\* session that ctx.stop() was called on complete until stopped() has run.
PingDone(c) ==
    /\ sessState[c] \in {"running", "stopping"}
    /\ pings[c] > 0
    /\ \E res \in {Ok, "connection lost", "stopped by peer"} :
        /\ res = Ok => connOpen[c]
        /\ res = "connection lost" => ~connOpen[c]
        /\ sessState' = [sessState EXCEPT ![c] = PingThen(@, res)]
        /\ failed' = [failed EXCEPT ![c] = IF res # Ok THEN @ + 1 ELSE @]
    /\ pings' = [pings EXCEPT ![c] = @ - 1]
    /\ UNCHANGED <<connOpen, lport, listening, fwd, mailbox, resolvesLeft,
                   droppedLive, ticks>>
    /\ UNCHANGED <<hsVars, regVars>>
    /\ UNCHANGED <<fanVars, ingressVars, discSent, sideVars>>

\* A stopped() that runs once for every ctx.stop() that was called.
stopped_PerStop(c) ==
    [n \in 1..(IF failed[c] = 0 THEN 1 ELSE failed[c]) |-> DisconnectMsg(hsId[c])]

\* Actor::stopped: what the session sends when it stops.
stopped(c) == <<DisconnectMsg(hsId[c])>>

\* The stopping session stops: stopped() runs and its futures are dropped,
\* the accept loop and the listener it owns with them.
SessStopped(c) ==
    /\ sessState[c] = "stopping"
    /\ sessState' = [sessState EXCEPT ![c] = "stopped"]
    /\ mailbox' = mailbox \o stopped(c)
    /\ discSent' = [discSent EXCEPT ![c] = @ + Len(stopped(c))]
    /\ pings' = [pings EXCEPT ![c] = 0]
    /\ listening' = [listening EXCEPT ![c] = FALSE]
    /\ UNCHANGED <<connOpen, lport, fwd, resolvesLeft, droppedLive, ticks>>
    /\ UNCHANGED <<hsVars, regVars>>
    /\ UNCHANGED <<fanVars, ingressVars, failed, sideVars>>

\* A loop that opens one bi-stream and hands it to every forwarder.
open_bi_Shared(n) == IF n = 0 THEN 1 ELSE n

\* connection.open_bi(): the next bidirectional stream of the connection,
\* by its number among the streams the server has opened.
open_bi(n) == n + 1

\* connect_tcp_to_bi_quic: accept() is Ok: open_bi().await.unwrap() and
\* spawn a forwarder.  The unwrap panics on a lost connection, inside the
\* session's own future: the actor is dropped, which stops it.
PublicAccept(c) ==
    /\ sessState[c] = "running"
    /\ listening[c]
    /\ publicLeft > 0
    /\ publicLeft' = publicLeft - 1
    /\ accepted' = [accepted EXCEPT ![c] = @ + 1]
    /\ IF connOpen[c]
       THEN /\ opened' = [opened EXCEPT ![c] = open_bi(@)]
            /\ fwd' = [fwd EXCEPT ![c] =
                          @ \cup {[sock |-> accepted[c] + 1, stream |-> open_bi(opened[c])]}]
            /\ UNCHANGED sessState
       ELSE /\ sessState' = [sessState EXCEPT ![c] = "stopping"]
            /\ UNCHANGED <<fwd, opened>>
    /\ UNCHANGED <<connOpen, lport, listening, pings, mailbox, resolvesLeft,
                   droppedLive, ticks>>
    /\ UNCHANGED <<hsVars, regVars>>
    /\ UNCHANGED <<ingressVars, stopVars, sideVars>>

\* connect_tcp_to_bi_quic: accept() is Err: the while-let ends, the function
\* returns and drops the listener.  Nothing else is done.
AcceptErr(c) ==
    /\ sessState[c] = "running"
    /\ listening[c]
    /\ listening' = [listening EXCEPT ![c] = FALSE]
    /\ UNCHANGED <<connOpen, lport, sessState, pings, fwd, mailbox, resolvesLeft,
                   droppedLive, ticks>>
    /\ UNCHANGED <<hsVars, regVars>>
    /\ UNCHANGED <<fanVars, ingressVars, stopVars, sideVars>>

\* A forwarder's select! ends: one copy direction completed or failed.
ForwarderDone(c) ==
    /\ \E f \in fwd[c] : fwd' = [fwd EXCEPT ![c] = @ \ {f}]
    /\ UNCHANGED <<connOpen, lport, sessState, listening, pings, mailbox,
                   resolvesLeft, droppedLive, ticks>>
    /\ UNCHANGED <<hsVars, regVars>>
    /\ UNCHANGED <<fanVars, ingressVars, stopVars, sideVars>>

\* ---- server.rs: the StormGrokServer actor (the registry) ------------------
Has(map, i) == i \in DOMAIN map

\* Handler<Connect>: self.sessions.insert(msg.id, msg.session_data)
ConnectHandler(map, msg) ==
    [i \in DOMAIN map \cup {msg.id} |->
        IF i = msg.id THEN [addr |-> msg.addr, tcp_addr |-> msg.port] ELSE map[i]]

\* A Handler<Disconnect> that leaves the entry in the map.
DisconnectHandler_Keeps(map, msg) == map

\* Handler<Disconnect>: self.sessions.remove(&msg.id)
DisconnectHandler(map, msg) == [i \in DOMAIN map \ {msg.id} |-> map[i]]

\* A Handler<Disconnect> that calls the stop handle in both arms of the match.
DisconnectStops_Always(map, msg) == TRUE

\* Handler<Disconnect>: the None arm calls self.stop_handle.stop(true)
DisconnectStops(map, msg) == ~Has(map, msg.id)

\* Handler<ResolveClient>: Some(client_address.clone().1), or None
\* forward, after srv.send(ResolveClient): Ok(Some(..)) forwards and relays
\* the agent's status; everything else is "is not currently connected".
forward(endpoint, status) ==
    IF endpoint # NoPort
    THEN [status |-> status, forwarded |-> TRUE]
    ELSE [status |-> HttpOk, forwarded |-> FALSE]

ResolveHandler(map, msg) ==
    IF Has(map, msg.id) THEN map[msg.id].tcp_addr ELSE NoPort

\* The sender of a Connect awaits the handler's reply.
AfterConnect(c) ==
    IF pc[c] = "h_connect" THEN "done"
    ELSE IF pc[c] = "s_connect" THEN "s_sendlisten"
    ELSE pc[c]

HandleConnect ==
    /\ mailbox # << >>
    /\ Head(mailbox).type = "Connect"
    /\ LET msg == Head(mailbox)
       IN  /\ sessions' = ConnectHandler(sessions, msg)
           /\ lastOp' = [lastOp EXCEPT ![msg.id] = "connect"]
           /\ lastEndpoint' = [lastEndpoint EXCEPT ![msg.id] = msg.port]
           /\ pc' = [pc EXCEPT ![msg.addr] = AfterConnect(msg.addr)]
    /\ mailbox' = Tail(mailbox)
    /\ UNCHANGED <<connOpen, closeCode, closeReason, hsError, hsId, sentId,
                   presented, lport, stopCalls, errLog, resolvesLeft, resolved,
                   droppedLive, ticks>>
    /\ UNCHANGED sessVars
    /\ UNCHANGED <<fanVars, ingressVars, stopVars, sideVars>>

HandleDisconnect ==
    /\ mailbox # << >>
    /\ Head(mailbox).type = "Disconnect"
    /\ LET msg == Head(mailbox)
       IN  /\ sessions' = DisconnectHandler(sessions, msg)
           /\ lastOp' = [lastOp EXCEPT ![msg.id] = "disconnect"]
           /\ IF DisconnectStops(sessions, msg)
              THEN /\ errLog' = errLog \cup {msg.id}
                   /\ stopCalls' = stopCalls + 1
              ELSE UNCHANGED <<errLog, stopCalls>>
    /\ mailbox' = Tail(mailbox)
    /\ UNCHANGED <<connOpen, lport, resolvesLeft, resolved, lastEndpoint,
                   droppedLive, ticks>>
    /\ UNCHANGED <<hsVars, sessVars>>
    /\ UNCHANGED <<fanVars, ingressVars, stopVars, sideVars>>

HandleResolveClient ==
    /\ mailbox # << >>
    /\ Head(mailbox).type = "ResolveClient"
    /\ LET msg == Head(mailbox)
       IN  /\ resolved' = [id |-> msg.id, endpoint |-> ResolveHandler(sessions, msg)]
           /\ \E status \in AgentStatuses :
                 response' = forward(ResolveHandler(sessions, msg), status)
    /\ mailbox' = Tail(mailbox)
    /\ UNCHANGED <<connOpen, lport, sessions, stopCalls, errLog, resolvesLeft,
                   lastOp, lastEndpoint, droppedLive, ticks>>
    /\ UNCHANGED <<hsVars, sessVars>>
    /\ UNCHANGED <<fanVars, stopVars, sideVars>>

\* ---- main.rs: forward asks the registry for the id of the Host label ----
\* forward: the if-let ladder over the Host header, up to the registry.
parse_host(h) ==
    IF ~h.header THEN [ok |-> FALSE, body |-> "Host not found"]
    ELSE IF ~h.str THEN [ok |-> FALSE, body |-> "Host was not a valid string"]
    ELSE IF h.label = NoId THEN [ok |-> FALSE, body |-> "could not be parsed to client_id"]
    ELSE [ok |-> TRUE, body |-> ""]

\* forward: a request whose Host names no id is answered at once.
IngressReject(h) ==
    /\ resolvesLeft > 0
    /\ ~parse_host(h).ok
    /\ resolvesLeft' = resolvesLeft - 1
    /\ response' = [status |-> NotFound, forwarded |-> FALSE]
    /\ UNCHANGED <<connOpen, lport, mailbox, droppedLive, ticks>>
    /\ UNCHANGED <<hsVars, sessVars, regVars>>
    /\ UNCHANGED <<fanVars, stopVars, sideVars>>

IngressResolve(i) ==
    /\ resolvesLeft > 0
    /\ resolvesLeft' = resolvesLeft - 1
    /\ mailbox' = Append(mailbox, ResolveMsg(i))
    /\ UNCHANGED <<connOpen, lport, droppedLive, ticks>>
    /\ UNCHANGED <<hsVars, sessVars, regVars>>
    /\ UNCHANGED <<fanVars, ingressVars, stopVars, sideVars>>

\* ---- google_key_store.rs: the GoogleKeyStore actor ----------------------
Err(e) == [ok |-> FALSE, err |-> e, keys |-> << >>]

\* A collect that drops the keys whose components do not decode.
rsa_keys_SkipBad(body) ==
    [ok |-> TRUE, err |-> "",
     keys |-> [k \in {d \in DOMAIN body : body[d] # BadComponent} |-> body[k]]]

\* refresh_token: .map(|key| Ok((key.kid, from_rsa_components(n, e)?)))
\* .collect::<Result<KeyMap>>(): every key, or the first error.
rsa_keys(body) ==
    IF \E k \in DOMAIN body : body[k] = BadComponent
    THEN Err("Could not get keys from google response")
    ELSE [ok |-> TRUE, err |-> "", keys |-> body]

\* refresh_token: Ok((keys, max_age)) or the error it returns.
refresh_token(r) ==
    IF ~r.net THEN Err("SendRequestError")
    ELSE IF r.cc = "<no header>" THEN Err("Could not find cache control header")
    ELSE IF r.cc = "public" THEN Err("Could not find max age in cache control header")
    ELSE IF r.cc = "max-age=," THEN Err("ParseIntError")
    ELSE IF ~r.json THEN Err("JsonPayloadError")
    ELSE rsa_keys(r.body)

\* A closure that adds the new keys to the ones it has.
RefreshApply_Merge(old, new) ==
    [k \in DOMAIN old \cup DOMAIN new |-> IF k \in DOMAIN new THEN new[k] ELSE old[k]]

\* Handler<RefreshCache>, the Ok arm: act.keys = keys
RefreshApply(old, new) == new

\* Handler<ResolveKey>: self.keys.get(&msg.kid).cloned()
ResolveKeyHandler(map, kid) == IF kid \in DOMAIN map THEN map[kid] ELSE NoKey

\* What a response is for the cache: a network error, no max-age to read, a
\* body that is no key list, a key that cannot be built, or a key set.
Outcome(r) ==
    IF ~r.net THEN "network error"
    ELSE IF r.cc # "max-age=3600," THEN "missing max-age"
    ELSE IF ~r.json THEN "bad body"
    ELSE IF \E k \in DOMAIN r.body : r.body[k] = BadComponent THEN "bad key"
    ELSE "ok"

\* A refresh future that is spawned: the mailbox goes on being handled.
Blocked_Spawn(fetch) == FALSE

\* .wait(ctx): the actor handles no message while the future is pending.
Blocked(fetch) == fetch = "waiting"

\* get_key_for_kid, after the reply to a ResolveKey: Some of the first or of
\* the second is returned, None of the first asks for a refresh, None of the
\* second is the error.
after_resolve(call, answer) ==
    IF call.pc = "resolve1"
    THEN IF answer # NoKey
         THEN [call EXCEPT !.pc = "done", !.result = answer]
         ELSE [call EXCEPT !.pc = "send_refresh"]
    ELSE IF call.pc = "resolve2"
    THEN [call EXCEPT !.pc = "done",
                      !.result = IF answer # NoKey THEN answer ELSE ErrNoKey]
    ELSE call

\* get_key_for_kid, after the reply to its RefreshCache, which the handler
\* gives when it returns: the refresh it started is refresh number n.
after_refresh(call, n) ==
    IF call.pc = "refresh"
    THEN [call EXCEPT !.pc = "send_retry", !.refreshNo = n]
    ELSE call

\* Handler<RefreshCache>: the request is sent and the future is
\* ctx.wait()ed: the actor handles nothing else until it completes.
KsHandleRefresh ==
    /\ ~Blocked(ksFetch)
    /\ ksMail # << >>
    /\ Head(ksMail).type = "RefreshCache"
    /\ attempts < MaxAttempts
    /\ ksMail' = Tail(ksMail)
    /\ ksFetch' = "waiting"
    /\ attempts' = attempts + 1
    /\ gk' = IF Head(ksMail).from = Caller THEN after_refresh(gk, attempts + 1) ELSE gk
    /\ UNCHANGED <<keys, ksTimers, asksLeft, keyAnswer, lastSnap, lastOutcome>>
    /\ UNCHANGED <<tunnelVars, fnVars>>

\* refresh_token completes and the closure chained to it runs.
KsRefreshDone ==
    /\ ksFetch = "waiting"
    /\ \E r \in Responses :
        LET res == refresh_token(r)
        IN  /\ IF res.ok
               THEN /\ keys' = RefreshApply(keys, res.keys)
                    /\ lastSnap' = res.keys
                    /\ ksTimers' = ksTimers + 1
               ELSE UNCHANGED <<keys, lastSnap, ksTimers>>
            /\ lastOutcome' = Outcome(r)
    /\ ksFetch' = "idle"
    /\ UNCHANGED <<ksMail, asksLeft, keyAnswer, attempts>>
    /\ UNCHANGED <<tunnelVars, callerVars, fnVars>>

\* ctx.notify_later(RefreshCache {}, max_age): max_age has passed.
KsTimerFires ==
    /\ ksTimers > 0
    /\ ksTimers' = ksTimers - 1
    /\ ksMail' = Append(ksMail, RefreshCache)
    /\ UNCHANGED <<keys, ksFetch, asksLeft, keyAnswer, lastSnap, lastOutcome, attempts>>
    /\ UNCHANGED <<tunnelVars, callerVars, fnVars>>

KsHandleResolveKey ==
    /\ ~Blocked(ksFetch)
    /\ ksMail # << >>
    /\ Head(ksMail).type = "ResolveKey"
    /\ keyAnswer' = [kid |-> Head(ksMail).kid,
                     key |-> ResolveKeyHandler(keys, Head(ksMail).kid)]
    /\ gk' = IF Head(ksMail).from = Caller
             THEN after_resolve(gk, ResolveKeyHandler(keys, Head(ksMail).kid))
             ELSE gk
    /\ ksMail' = Tail(ksMail)
    /\ UNCHANGED <<keys, ksFetch, ksTimers, asksLeft, lastSnap, lastOutcome, attempts>>
    /\ UNCHANGED <<tunnelVars, fnVars>>

\* get_key_for_kid: a caller sends ResolveKey, or RefreshCache after a miss.
KsAsk(msg) ==
    /\ asksLeft > 0
    /\ asksLeft' = asksLeft - 1
    /\ ksMail' = Append(ksMail, msg)
    /\ UNCHANGED <<keys, ksFetch, ksTimers, keyAnswer, lastSnap, lastOutcome, attempts>>
    /\ UNCHANGED <<tunnelVars, callerVars, fnVars>>

\* get_key_for_kid(kid) is called: key_store_address.send(ResolveKey { kid }).
GkStart(kid) ==
    /\ gk.pc = "idle"
    /\ gk' = [gk EXCEPT !.pc = "resolve1", !.kid = kid, !.resolves = 1]
    /\ ksMail' = Append(ksMail, FromCaller(ResolveKeyMsg(kid)))
    /\ UNCHANGED <<keys, ksFetch, ksTimers, asksLeft, keyAnswer, lastSnap,
                   lastOutcome, attempts>>
    /\ UNCHANGED <<tunnelVars, fnVars>>

\* The None arm: key_store_address.send(RefreshCache {}).
GkSendRefresh ==
    /\ gk.pc = "send_refresh"
    /\ gk' = [gk EXCEPT !.pc = "refresh", !.refreshes = @ + 1]
    /\ ksMail' = Append(ksMail, FromCaller(RefreshCache))
    /\ UNCHANGED <<keys, ksFetch, ksTimers, asksLeft, keyAnswer, lastSnap,
                   lastOutcome, attempts>>
    /\ UNCHANGED <<tunnelVars, fnVars>>

\* The None arm, after the refresh was asked for: the second ResolveKey.
GkSendRetry ==
    /\ gk.pc = "send_retry"
    /\ gk' = [gk EXCEPT !.pc = "resolve2", !.resolves = @ + 1]
    /\ ksMail' = Append(ksMail, FromCaller(ResolveKeyMsg(gk.kid)))
    /\ UNCHANGED <<keys, ksFetch, ksTimers, asksLeft, keyAnswer, lastSnap,
                   lastOutcome, attempts>>
    /\ UNCHANGED <<tunnelVars, fnVars>>

\* ---- the specifications --------------------------------------------------
\* The steps of the session actors and of the registry's Connect and
\* Disconnect handlers, with the network and the public side around them.
Common ==
    \/ \E c \in Conns : ConnDrop(c)
    \/ \E c \in Conns : SessStartListening(c)
    \/ \E c \in Conns : HeartBeat(c)
    \/ \E c \in Conns : PingDone(c)
    \/ \E c \in Conns : SessStopped(c)
    \/ \E c \in Conns : PublicAccept(c)
    \/ \E c \in Conns : AcceptErr(c)
    \/ \E c \in Conns : ForwarderDone(c)
    \/ HandleConnect
    \/ HandleDisconnect

\* The HTTP ingress asks, the registry answers.
Ingress ==
    \/ HandleResolveClient
    \/ \E i \in Ids : IngressResolve(i)
    \/ \E h \in HostHeaders : IngressReject(h)

\* Connections are handed to session.rs start_session (the handshake with
\* the JWT).
Handshake ==
    \/ \E c \in Conns : Accept(c)
    \/ \E c \in Conns : HsNextBiStream(c)
    \/ \E c \in Conns : HsRead(c)
    \/ \E c \in Conns : HsReply(c)
    \/ \E c \in Conns : HsListenPort(c)
    \/ \E c \in Conns : HsSendConnect(c)

Next ==
    \/ Handshake
    \/ Common
    \/ Ingress

Spec == Init /\ [][Next]_vars

\* Connections are handed to server.rs start_session, as its
\* StreamHandler<Connecting> does.
SrvNext ==
    \/ \E c \in Conns : SrvAccept(c)
    \/ \E c \in Conns : SrvSendUuid(c)
    \/ \E c \in Conns : SrvListenPort(c)
    \/ \E c \in Conns : SrvSendListen(c)
    \/ \E c \in Conns : SrvListenClosed(c)
    \/ Common
    \/ Ingress

SrvSpec == Init /\ [][SrvNext]_vars

\* The runtime polls every future that can make progress, the heartbeat
\* interval keeps firing while the session runs, and the registry handles
\* what is in its mailbox.  What the agent, the network and the public do
\* (Accept, ConnDrop, PublicAccept, AcceptErr, IngressResolve) is not forced.
Fairness ==
    /\ \A c \in Conns :
        /\ WF_vars(HsNextBiStream(c)) /\ WF_vars(HsRead(c)) /\ WF_vars(HsReply(c))
        /\ WF_vars(HsListenPort(c)) /\ WF_vars(HsSendConnect(c))
        /\ WF_vars(SessStartListening(c)) /\ WF_vars(HeartBeat(c))
        /\ WF_vars(PingDone(c)) /\ WF_vars(SessStopped(c))
        /\ WF_vars(ForwarderDone(c))
    /\ WF_vars(HandleConnect) /\ WF_vars(HandleDisconnect)

\* Handshakes, sessions and the registry without the ingress: a
\* ResolveClient changes nothing of theirs, it only waits its turn in the
\* registry's mailbox.
SessionNext ==
    \/ Handshake
    \/ Common

FairSpec == Init /\ [][SessionNext]_vars /\ Fairness

\* The key store alone: validate_token does not ask it.
KeyNext ==
    \/ KsHandleRefresh
    \/ KsRefreshDone
    \/ KsTimerFires
    \/ KsHandleResolveKey
    \/ \E kid \in Kids : KsAsk(ResolveKeyMsg(kid))
    \/ KsAsk(RefreshCache)
    \/ \E kid \in Kids : GkStart(kid)
    \/ GkSendRefresh
    \/ GkSendRetry

KeySpec == Init /\ [][KeyNext]_vars

\* The actor handles its mailbox, requests complete and timers fire; what
\* callers send is not forced.
KeyFairness ==
    /\ WF_vars(KsHandleRefresh) /\ WF_vars(KsRefreshDone)
    /\ WF_vars(KsTimerFires) /\ WF_vars(KsHandleResolveKey)

KeyFairSpec == KeySpec /\ KeyFairness

\* do_handshake on one payload: validate_token(received_bytes, auth); the
\* session it then starts has no field for a mode.
Validate ==
    /\ fnOut = NoOutput
    /\ fnIn # NoInput
    /\ fnOut' = [mode |-> NoMode,
                 result |-> validate_token(from_utf8_lossy(fnIn), fnIn.rules)]
    /\ UNCHANGED <<fnIn, tunnelVars, keyVars, callerVars>>

ValidateInit == InitWith(MaxFwd, ValidateInputs)

ValidateSpec == ValidateInit /\ [][Validate]_vars

\* One agent, and MaxPublic public connections to its listener.
OneAgent == {CHOOSE c \in Conns : \A d \in Conns : c <= d}

FanInit == InitState(MaxPublic)

FanNext ==
    \/ \E c \in OneAgent : Accept(c)
    \/ \E c \in OneAgent : HsNextBiStream(c)
    \/ \E c \in OneAgent : HsRead(c)
    \/ \E c \in OneAgent : HsReply(c)
    \/ \E c \in OneAgent : HsListenPort(c)
    \/ \E c \in OneAgent : HsSendConnect(c)
    \/ Common

FanSpec == FanInit /\ [][FanNext]_vars

TypeOK ==
    /\ pc \in [Conns -> {"idle", "h_stream", "h_read", "h_reply", "h_port",
                         "h_listen", "h_sendconnect", "h_connect", "s_uuid",
                         "s_port", "s_connect", "s_sendlisten", "s_listen",
                         "done", "closed", "panicked"}]
    /\ sessState \in [Conns -> {"none", "running", "stopping", "stopped"}]
    /\ lport \in [Conns -> Ports \cup {NoPort}]
    /\ pings \in [Conns -> 0..MaxPings]
    /\ \A c \in Conns : Cardinality(fwd[c]) <= accepted[c]
    /\ publicLeft \in 0..MaxPublic
    /\ discSent \in [Conns -> 0..1]
    /\ failed \in [Conns -> 0..(MaxPings + 1)]
    /\ fnIn \in ValidateInputs \cup {NoInput}
    /\ fnOut.mode \in {NoMode, "Tcp", "Http"}
    /\ response \in [status : {0, HttpOk, NotFound}, forwarded : BOOLEAN]
    /\ DOMAIN keys \subseteq Kids
    /\ \A k \in DOMAIN keys : keys[k] \in Components \ {BadComponent}
    /\ ksFetch \in {"idle", "waiting"}
    /\ ksTimers \in 0..MaxAttempts
    /\ asksLeft \in 0..MaxAsks
    /\ attempts \in 0..MaxAttempts
    /\ Len(ksMail) <= 1 + MaxAttempts + MaxAsks + 3
    /\ gk.pc \in {"idle", "resolve1", "send_refresh", "refresh", "send_retry",
                  "resolve2", "done"}
    /\ gk.refreshNo \in 0..MaxAttempts
    /\ lastOutcome \in {"none", "ok", "network error", "missing max-age", "bad body", "bad key"}
    /\ DOMAIN sessions \subseteq Ids
    /\ stopCalls \in 0..NumConns

\* ---- properties ------------------------------------------------------------
Registered(c) == hsId[c] # NoId /\ Has(sessions, hsId[c])

\* A Connect for connection c has been sent or handled.
ConnectSent(c) ==
    \/ Registered(c)
    \/ \E k \in 1..Len(mailbox) :
          mailbox[k].type = "Connect" /\ mailbox[k].addr = c

\* The step handles the message at the head of the registry's mailbox.
Handles(type) ==
    /\ mailbox # << >>
    /\ Head(mailbox).type = type
    /\ mailbox' = Tail(mailbox)

\* C1 (auth gate): a connection whose agent has not presented a JWT with
\* (email_verified and email in users) or (hd in host_domains) never gets a
\* registry entry, and no Connect is ever sent for it.
C1_AuthGate == \A c \in Conns : ConnectSent(c) => presented[c]

\* The failures of the handshake that the error-handling design lists: a
\* stream that cannot be read, a token that is rejected, port exhaustion.
ListedFailures ==
    {"connection lost", "stream reset by peer", "stream too long",
     "InvalidToken", "No kid found in header", "InvalidSignature",
     "You are not allowed in here!", "No ports available"}

\* C2 (handshake failure): a handshake that failed for one of the listed
\* reasons has sent nothing to the registry and has closed its connection
\* with application error code 1 and a reason string; only a connection the
\* peer had lost already may be left without that close.
C2_FailureCloses ==
    \A c \in Conns :
        hsError[c] \in ListedFailures =>
            /\ ~ConnectSent(c)
            /\ \/ closeCode[c] = CloseCode /\ closeReason[c] # ""
               \/ ~connOpen[c]

\* C3 (registry under churn): the registry holds an entry for an id exactly
\* when the last Connect/Disconnect it handled for that id was a Connect, the
\* entry carries that Connect's endpoint, and a ResolveClient is answered with
\* that endpoint, or with None when there is no entry.
C3_RegistryChurn ==
    /\ [](\A i \in Ids :
            /\ Has(sessions, i) <=> lastOp[i] = "connect"
            /\ Has(sessions, i) => sessions[i].tcp_addr = lastEndpoint[i])
    /\ [][Handles("ResolveClient") =>
            /\ resolved'.id = Head(mailbox).id
            /\ resolved'.endpoint =
                  IF lastOp[Head(mailbox).id] = "connect"
                  THEN lastEndpoint[Head(mailbox).id] ELSE NoPort
            /\ sessions' = sessions]_vars

\* An id was connected, disconnected, and a ResolveClient for it was then
\* answered None.
C3_Witness ==
    \E i \in Ids :
        /\ lastOp[i] = "disconnect"
        /\ lastEndpoint[i] # NoPort
        /\ resolved = [id |-> i, endpoint |-> NoPort]

\* C4 (tripwire): a step calls the stop handle exactly when it handles a
\* Disconnect for an id that has no entry, and that step also logs the id;
\* no other step (Disconnect of a present id, Connect, ResolveClient, a
\* failing handshake, a stopping session) calls it.
C4_Tripwire ==
    [][LET absent == /\ Handles("Disconnect")
                     /\ ~Has(sessions, Head(mailbox).id)
       IN  /\ absent => /\ stopCalls' = stopCalls + 1
                        /\ Head(mailbox).id \in errLog'
           /\ ~absent => /\ stopCalls' = stopCalls
                         /\ errLog' = errLog]_vars

\* The tripwire has fired once, for one id, and the Disconnect of another id
\* that had an entry has been handled without firing it a second time.
C4_Witness ==
    /\ stopCalls = 1
    /\ errLog # {}
    /\ \E i \in Ids : lastOp[i] = "disconnect" /\ i \notin errLog

\* C5 (heartbeat liveness), with time counted in firings of the session's
\* heartbeat interval: once the connection of a LIVE session is lost, the
\* session fires at most two more heartbeats while the registry still has its
\* entry, and from some point on the registry never has the entry again.
C5_HeartbeatLiveness ==
    /\ [](\A c \in Conns : (droppedLive[c] /\ Registered(c)) => ticks[c] <= 2)
    /\ \A c \in Conns : droppedLive[c] ~> [](~Registered(c))

\* The connection of a LIVE session was lost, its next heartbeat failed, the
\* session stopped and the registry has removed the entry.
C5_Witness ==
    \E c \in Conns :
        /\ droppedLive[c]
        /\ ticks[c] = 1
        /\ sessState[c] = "stopped"
        /\ lastOp[hsId[c]] = "disconnect"
        /\ ~Registered(c)

\* The Disconnect of id is on its way to the registry.
DisconnectPending(i) ==
    \E k \in 1..Len(mailbox) :
        mailbox[k].type = "Disconnect" /\ mailbox[k].id = i

\* C6 (invariant I1): a registry entry belongs to a session whose actor has
\* not stopped and whose connection is open; the only entries allowed beside
\* these are the ones whose removal is under way (the session is about to
\* notice the loss, is stopping, or its Disconnect is in the mailbox).
C6_EntryImpliesOpen ==
    \A c \in Conns :
        Registered(c) =>
            \/ sessState[c] = "running" /\ connOpen[c]
            \/ sessState[c] = "running" /\ ~connOpen[c]
            \/ sessState[c] = "stopping"
            \/ DisconnectPending(hsId[c])

\* C7 (port disjointness): no port is bound by the listeners of two
\* sessions, and no two registry entries carry the same port.
C7_PortsDisjoint ==
    /\ \A c, d \in Conns :
          (c # d /\ Bound(c) /\ Bound(d)) => lport[c] # lport[d]
    /\ \A i, j \in DOMAIN sessions :
          i # j => sessions[i].tcp_addr # sessions[j].tcp_addr

\* C8 (routing determinism): a ResolveClient for the id of a LIVE session
\* that has its entry and an open connection is answered with the port that
\* session's listener is bound to, and with no port another LIVE session is
\* bound to.
C8_RoutingDeterminism ==
    [][\A c \in Conns :
          (/\ Handles("ResolveClient")
           /\ Head(mailbox).id = hsId[c]
           /\ Live(c) /\ connOpen[c] /\ Registered(c))
          => /\ listening[c]
             /\ resolved'.endpoint = lport[c]
             /\ \A d \in Conns \ {c} :
                    (Live(d) /\ Bound(d)) => resolved'.endpoint # lport[d]]_vars

\* C9 (round-trip identity): whenever a Connect for a connection has been
\* sent, UuidLen bytes have been written to its agent and they decode to the
\* id of that Connect, which is the id the registry holds for the session.
C9_RoundTrip ==
    /\ \A c \in Conns :
          ConnectSent(c) =>
              /\ Len(sentId[c]) = UuidLen
              /\ from_bytes(sentId[c]) = hsId[c]
    /\ \A k \in 1..Len(mailbox) :
          mailbox[k].type = "Connect" => mailbox[k].id = hsId[mailbox[k].addr]
    /\ \A i \in DOMAIN sessions : hsId[sessions[i].addr] = i

\* One of the three events has happened to a LIVE session: its heartbeat
\* failed (the handler called ctx.stop()), its connection is lost, or its
\* accept loop has ended.
LifecycleEvent(c) ==
    /\ pc[c] = "done"
    /\ \/ sessState[c] = "stopping"
       \/ sessState[c] = "running" /\ ~connOpen[c]
       \/ sessState[c] = "running" /\ ~listening[c]

\* C10 (session lifecycle): each of the three events leads to the session
\* STOPPED and its entry gone from the registry.
C10_Lifecycle ==
    \A c \in Conns :
        LifecycleEvent(c) ~> (sessState[c] = "stopped" /\ ~Registered(c))

\* C11 (concurrent fan-out): while the agent is live and its connection
\* open, the server has opened as many bi-streams on the connection as its
\* accept loop has accepted public sockets, every forwarder holds a stream
\* that was opened, and no two forwarders have the same stream or socket.
C11_FanOut ==
    \A c \in Conns :
        /\ (sessState[c] = "running" /\ connOpen[c]) => opened[c] = accepted[c]
        /\ \A f \in fwd[c] : f.stream \in 1..opened[c] /\ f.sock \in 1..accepted[c]
        /\ \A f, g \in fwd[c] :
              f # g => (f.stream # g.stream /\ f.sock # g.sock)

\* MaxPublic public sockets were accepted and at least two forwarders run
\* side by side.
C11_Witness ==
    \E c \in Conns :
        /\ accepted[c] = MaxPublic
        /\ opened[c] = MaxPublic
        /\ Cardinality(fwd[c]) >= 2

\* The step handles the ResolveKey at the head of the key store's mailbox.
HandlesResolveKey ==
    /\ ksFetch = "idle"
    /\ ksMail # << >>
    /\ Head(ksMail).type = "ResolveKey"
    /\ ksMail' = Tail(ksMail)

\* C12 (snapshot atomicity): the cache is empty until a response has been
\* applied and is from then on the whole key set of the last response that
\* was applied; a ResolveKey is answered from that one key set.
C12_SnapshotAtomic ==
    /\ [](keys = lastSnap)
    /\ [][HandlesResolveKey =>
            /\ keyAnswer'.kid = Head(ksMail).kid
            /\ keyAnswer'.key =
                  IF Head(ksMail).kid \in DOMAIN lastSnap
                  THEN lastSnap[Head(ksMail).kid] ELSE NoKey
            /\ keys' = keys]_vars

\* A second response has replaced the first, a kid of the first is gone and
\* a ResolveKey for it was answered None.
C12_Witness ==
    /\ attempts >= 2
    /\ lastOutcome = "ok"
    /\ keys # << >>
    /\ \E k \in Kids \ DOMAIN keys : keyAnswer = [kid |-> k, key |-> NoKey]

\* C13 (failed refresh): a refresh that ends in a network error, a missing
\* max-age or a key that cannot be built leaves the cache as it was.
C13_FailedRefreshKeeps ==
    [][(/\ ksFetch = "waiting" /\ ksFetch' = "idle"
        /\ lastOutcome' \in {"network error", "missing max-age", "bad key"})
          => keys' = keys]_vars

\* A refresh has failed on one bad key while the cache held the keys of an
\* earlier response.
C13_Witness ==
    /\ lastOutcome = "bad key"
    /\ attempts >= 2
    /\ keys # << >>
    /\ keys = lastSnap

\* C14 (refresh retried): after a refresh has ended in a network error or a
\* missing max-age, a further refresh is started, whatever callers do.
C14_RefreshRetried ==
    \A n \in 1..(MaxAttempts - 1) :
        (/\ lastOutcome \in {"network error", "missing max-age"}
         /\ ksFetch = "idle" /\ attempts = n) ~> (attempts > n)

\* The step answers a public request whose Host names no id.
RejectsHost ==
    /\ resolvesLeft' = resolvesLeft - 1
    /\ mailbox' = mailbox

\* C15 (routing errors): a public request with no Host, with a Host whose
\* first label is no id, or with an id the registry has no entry for is
\* answered 404 and is not forwarded.
C15_RoutingErrors404 ==
    [][(\/ RejectsHost
        \/ Handles("ResolveClient") /\ ~Has(sessions, Head(mailbox).id))
          => response' = [status |-> NotFound, forwarded |-> FALSE]]_vars

\* jsonwebtoken accepts the token: its header decodes and has a kid, its
\* signature and its expiry are good.
CorrectlySigned(token) == token.header /\ token.kid /\ token.valid

\* C16 (authorization decision): a correctly signed token passes validation
\* exactly when its email is verified and in users, or its hd is present
\* and in host_domains.
C16_AuthorizationDecision ==
    (fnOut # NoOutput /\ fnIn.tag = NoTag /\ CorrectlySigned(fnIn.token)) =>
        (fnOut.result = Ok <=>
            \/ fnIn.token.email_verified /\ fnIn.token.email \in fnIn.rules.users
            \/ fnIn.token.hd # NoHd /\ fnIn.token.hd \in fnIn.rules.host_domains)

\* A token whose email is in users but not verified, and whose hd is in no
\* list, was rejected.
C16_Witness ==
    /\ fnIn.tag = NoTag
    /\ CorrectlySigned(fnIn.token)
    /\ ~fnIn.token.email_verified
    /\ fnIn.token.email \in fnIn.rules.users
    /\ fnIn.token.hd \notin fnIn.rules.host_domains
    /\ fnOut.result = "You are not allowed in here!"

\* C17 (mode tag): the mode recorded is Tcp when the first byte of the
\* payload is 0x74 and Http otherwise, and the bytes after the first byte
\* are what is validated as the JWT.
C17_ModeTag ==
    (fnOut # NoOutput /\ fnIn.tag # NoTag) =>
        /\ fnOut.mode = IF fnIn.tag = TcpTag THEN "Tcp" ELSE "Http"
        /\ fnOut.result = validate_token(fnIn.token, fnIn.rules)

\* C18 (registry before listener): when the listener of a session whose
\* handshake has sent its id accepts connections, the registry has handled
\* the Connect of that id.
C18_ConnectBeforeListen ==
    \A c \in Conns :
        (listening[c] /\ sentId[c] # << >>) => lastEndpoint[hsId[c]] # NoPort

\* C19 (port before reply): the loopback port is bound before the id bytes
\* are written to the agent, so a handshake that finds no port has sent no
\* id.
C19_PortBeforeReply ==
    /\ [](\A c \in Conns : hsError[c] = "No ports available" => sentId[c] = << >>)
    /\ [][\A c \in Conns : sentId'[c] # sentId[c] => lport[c] # NoPort]_vars

\* C20 (teardown): a ping that fails stops the session, and a session has
\* sent one Disconnect when it has stopped and none before, however many of
\* its pings failed.
C20_Teardown ==
    /\ [](\A c \in Conns :
            discSent[c] = IF sessState[c] = "stopped" THEN 1 ELSE 0)
    /\ [][\A c \in Conns : failed'[c] > failed[c] => sessState'[c] = "stopping"]_vars

\* A session has stopped after two of its pings failed, one of them after
\* ctx.stop() had been called, and the registry has handled its Disconnect.
C20_Witness ==
    \E c \in Conns :
        /\ sessState[c] = "stopped"
        /\ failed[c] >= 2
        /\ discSent[c] = 1
        /\ lastOp[hsId[c]] = "disconnect"

\* The step ends forwarders of connection c.
ForwarderEnds(c) == fwd'[c] # fwd[c] /\ fwd'[c] \subseteq fwd[c]

\* The step accepts a public socket for connection c and opens no stream
\* for it.
OpenBiFails(c) == accepted'[c] > accepted[c] /\ opened'[c] = opened[c]

\* C21 (forwarder independence): in the session of an agent whose handshake
\* has sent its id, a forwarder that ends takes no other forwarder with it,
\* and neither its end nor a public socket whose bi-stream cannot be opened
\* ends another forwarder, the accept loop or the session.
C21_ForwarderIndependence ==
    [][\A c \in {d \in Conns : sentId[d] # << >>} :
        /\ ForwarderEnds(c) => Cardinality(fwd[c] \ fwd'[c]) = 1
        /\ OpenBiFails(c) => fwd'[c] = fwd[c]
        /\ (ForwarderEnds(c) \/ OpenBiFails(c)) =>
              /\ listening'[c] = listening[c]
              /\ sessState'[c] = sessState[c]]_vars

\* C22 (key lookup with one refresh): a call of get_key_for_kid sends at
\* most one RefreshCache and two ResolveKey; a hit of the first ResolveKey
\* is returned with no refresh asked for; after a miss it has sent one
\* RefreshCache and one more ResolveKey, that one is answered when the
\* refresh it asked for has completed, from the snapshot then in the cache,
\* and a kid still absent is returned as the error.
C22_LookupOneRefresh ==
    /\ [](/\ gk.refreshes <= 1 /\ gk.resolves <= 2
          /\ gk.pc = "done" =>
                \/ gk.refreshes = 0 /\ gk.resolves = 1 /\ gk.result \notin {NoKey, ErrNoKey}
                \/ gk.refreshes = 1 /\ gk.resolves = 2 /\ gk.result # NoKey)
    /\ [][(gk.pc = "resolve1" /\ gk'.pc # "resolve1") =>
            IF gk.kid \in DOMAIN keys
            THEN gk'.pc = "done" /\ gk'.result = keys[gk.kid] /\ gk'.refreshes = 0
            ELSE gk'.pc = "send_refresh"]_vars
    /\ [][(gk.pc = "resolve2" /\ gk'.pc # "resolve2") =>
            /\ gk.refreshNo >= 1
            /\ attempts >= gk.refreshNo
            /\ ksFetch = "idle"
            /\ gk'.pc = "done"
            /\ gk'.result = IF gk.kid \in DOMAIN lastSnap
                            THEN lastSnap[gk.kid] ELSE ErrNoKey]_vars

\* A call missed its kid, asked for one refresh, and its second ResolveKey
\* returned the key of the snapshot that refresh brought.
C22_Witness ==
    /\ gk.pc = "done"
    /\ gk.refreshes = 1
    /\ gk.resolves = 2
    /\ attempts = gk.refreshNo
    /\ lastOutcome = "ok"
    /\ gk.kid \in DOMAIN keys
    /\ gk.result = keys[gk.kid]

\* The connections whose handshake has sent the agent its id.
Replied == {c \in Conns : sentId[c] # << >>}

\* C23 (Connect before Disconnect): for the session of every agent whose
\* handshake has sent its id, the registry handles the Disconnect of the
\* id when it has the entry the Connect put there, handles the Connect
\* before any Disconnect of the id, and never fires the tripwire for it.
C23_ConnectBeforeDisconnect ==
    /\ [](\A c \in Replied : hsId[c] \notin errLog)
    /\ [][\A c \in Replied :
            (Handles("Disconnect") /\ Head(mailbox).id = hsId[c])
                => lastOp[hsId[c]] = "connect"]_vars
    /\ [][\A c \in Replied :
            (Handles("Connect") /\ Head(mailbox).id = hsId[c])
                => lastOp[hsId[c]] = "none"]_vars

====
